---- MODULE Spec2Model ----
(***************************************************************************)
(* Model of src/analytics_mcp/client.py: a command-line chat session that  *)
(* keeps a turn history, opens one streaming request per user input,       *)
(* dispatches the stream's events to the terminal and appends the final    *)
(* assistant turn.  The remote service and the client library are the      *)
(* environment: the events of a stream, the exceptions raised while        *)
(* opening or reading it, the result of get_final_response and the user's  *)
(* interrupts are chosen nondeterministically.                             *)
(***************************************************************************)
EXTENDS Integers, Sequences, FiniteSets, TLC

\* ---------------------------------------------------------------- bounds
MaxExchanges == 2    \* calls of ask in one run
MaxEvents == 3       \* events delivered by one stream

\* ------------------------------------------------------- values and text
\* Text is a sequence of characters.  Python's None and a present value are
\* the two shapes of an optional value.
None == [some |-> FALSE, val |-> <<>>]
Some(v) == [some |-> TRUE, val |-> v]

\* Python truthiness of an optional string or list: None and the empty
\* value are falsy.
Truthy(o) == o.some /\ o.val /= <<>>

IsSpace(c) == c = " "

RECURSIVE LStrip(_)
LStrip(s) == IF s /= <<>> /\ IsSpace(Head(s)) THEN LStrip(Tail(s)) ELSE s

RECURSIVE RStrip(_)
RStrip(s) ==
  IF s /= <<>> /\ IsSpace(s[Len(s)]) THEN RStrip(SubSeq(s, 1, Len(s) - 1)) ELSE s

\* str.strip(): removes leading and trailing whitespace.
Strip(s) == RStrip(LStrip(s))

\* The lines a user can type at the prompt and the values of -m/--message.
Lines == { <<>>, <<" ">>, <<"a">>, <<" ", "a", " ">> }
Messages == { None, Some(<<>>), Some(<<" ">>), Some(<<"a">>) }

\* The output_text of a final response: absent, or some text.
OutputTexts == { None, Some(<<"a", "b">>) }

Models == { "gpt-5-mini" }

\* ---------------------------------------------------------------- turns
SystemText == << "You are a helpful assistant in a CLI. (...)" >>

Turn(role, ctype, text) == [role |-> role, ctype |-> ctype, text |-> text]
SystemTurn == Turn("system", "input_text", SystemText)
UserTurn(text) == Turn("user", "input_text", text)
AssistantTurn(text) == Turn("assistant", "output_text", text)

\* ---------------------------------------------------------------- tools
McpTool == [type |-> "mcp",
            server_label |-> "google-analytics-mcp",
            server_url |-> "https://tom-nominated-beneficial-joining.trycloudflare.com/mcp/",
            require_approval |-> "never"]

\* Variant: the descriptor is attached whatever --no-tools says.
MakeTools_Always(no_tools) == Some(<< McpTool >>)

\* tools = None if args.no_tools else [descriptor]
MakeTools(no_tools) == IF no_tools THEN None ELSE Some(<< McpTool >>)

\* The expression `tools or None` of the request.
OrNone(t) == IF Truthy(t) THEN t ELSE None

\* --------------------------------------------------------------- events
Event(type, delta, fields) == [type |-> type, delta |-> delta, fields |-> fields]

TextDelta(d) == Event("response.output_text.delta", d, {})
TextDone == Event("response.output_text.done", <<>>, {})
ErrorEvent == Event("response.error", <<>>, {"error"})

ToolTypes == { "response.tool_call.begin", "response.tool_call.delta",
               "response.tool_call.output", "response.tool_call.completed" }

\* The optional attributes each tool-call event reads with getattr.
OptionalFields(type) ==
  IF type = "response.tool_call.begin" THEN { "call_id", "args" }
  ELSE IF type = "response.tool_call.delta" THEN { "args_delta" }
  ELSE IF type = "response.tool_call.output"
    THEN { "output_text", "is_streaming", "output_image" }
  ELSE IF type = "response.tool_call.completed" THEN { "result" }
  ELSE {}

\* The events a stream can deliver.  `fields` holds the optional attributes
\* an event carries with a truthy value.  The last one is an event of a type
\* the dispatch does not know.
Events ==
  { TextDelta(<<"a">>), TextDelta(<<"b">>), TextDone, ErrorEvent,
    Event("response.created", <<>>, {}) }
  \cup UNION { { Event(t, <<>>, f) : f \in SUBSET OptionalFields(t) } : t \in ToolTypes }

IsToolEvent(e) == e.type \in ToolTypes

\* ------------------------------------------------------------- rendering
\* What the dispatch of one event prints, as the sequence of its output
\* calls: sys.stdout.write, bar, kv, print.
\* Variant: an optional attribute is printed without being tested.
Opt_Always(e, field, items) == items

Opt(e, field, items) == IF field \in e.fields THEN items ELSE <<>>

Render(e, trace) ==
  IF e.type = "response.output_text.delta" THEN << <<"write", e.delta>> >>
  ELSE IF e.type = "response.output_text.done" THEN <<>>
  ELSE IF trace /\ e.type = "response.tool_call.begin" THEN
    << <<"bar", <<"Tool Call Begin">> >>, <<"kv", <<"tool">> >> >>
      \o Opt(e, "call_id", << <<"kv", <<"call_id">> >> >>)
      \o Opt(e, "args", << <<"print", <<"args">> >> >>)
  ELSE IF trace /\ e.type = "response.tool_call.delta" THEN
    Opt(e, "args_delta", << <<"kv", <<"args_delta">> >>, <<"print", <<"args_delta">> >> >>)
  ELSE IF trace /\ e.type = "response.tool_call.output" THEN
    << <<"bar", <<"Tool Output">> >> >>
      \o Opt(e, "output_text",
             << <<"print", IF "is_streaming" \in e.fields
                            THEN <<"output_text">> ELSE <<"output_text", "\n">> >> >>)
      \o Opt(e, "output_image", << <<"kv", <<"output_image">> >> >>)
  ELSE IF trace /\ e.type = "response.tool_call.completed" THEN
    << <<"bar", <<"Tool Call Completed">> >> >>
      \o Opt(e, "result", << <<"print", <<"result">> >> >>)
  ELSE IF e.type = "response.error" THEN
    << <<"bar", <<"Error">> >>, <<"print", <<"error">> >> >>
  ELSE <<>>

\* The `break` of the error branch.
Breaks(e) == e.type = "response.error"

RECURSIVE Flatten(_)
Flatten(ss) == IF ss = <<>> THEN <<>> ELSE Head(ss) \o Flatten(Tail(ss))

\* The characters that the sys.stdout.write calls of one dispatch emit.
WrittenBy(out) ==
  Flatten([j \in 1..Len(out) |-> IF out[j][1] = "write" THEN out[j][2] ELSE <<>>])

\* The kind of stream received so far: nothing yet, text fragments only,
\* text fragments followed by one completion marker, or anything else.
ShapeAfter(shape, e) ==
  IF shape \in { "empty", "text" } /\ e.type = "response.output_text.delta" THEN "text"
  ELSE IF shape = "text" /\ e.type = "response.output_text.done" THEN "text+done"
  ELSE "other"

\* ----------------------------------------------------------------- state
VARIABLES
  args,        \* parsed command line: model, no_tools, trace
  tools,       \* None or the list of tool descriptors
  history,     \* the turn list
  pc,          \* where the process is
  user_text,   \* parameter of the running call of ask
  request,     \* the most recent outbound request, as a list of at most one
  conns,       \* open stream connections
  event,       \* the event the loop received last, as a list of at most one
  out,         \* what the dispatch of that event printed
  written,     \* text this exchange wrote with sys.stdout.write
  fragments,   \* text fragments this exchange received, concatenated
  received,    \* number of events the loop of this exchange received
  shape,       \* kind of stream received so far
  sawError,    \* an error event was received in this exchange
  resp,        \* output_text of the final response, as a list of at most one
  ret,         \* return value of the last call of ask, None while it runs
  outcome,     \* how the last call of ask left the try statement
  histBefore,  \* history when the running call of ask was entered
  farewells,   \* times the farewell line was printed
  exchanges,   \* calls of ask so far
  succeeded,   \* calls of ask that returned a reply without any error event
  failed       \* positions in history of the user turns whose exchange raised

\* The state of one exchange: the locals of ask and what it showed.
exch == << user_text, event, out, written, fragments, received, shape, sawError,
           resp, histBefore >>

vars == << args, tools, history, pc, request, conns, ret, outcome, farewells,
           exchanges, succeeded, failed, exch >>

NoExchange ==
  /\ user_text = <<>>
  /\ event = <<>>
  /\ out = <<>>
  /\ written = <<>>
  /\ fragments = <<>>
  /\ received = 0
  /\ shape = "empty"
  /\ sawError = FALSE
  /\ resp = <<>>
  /\ histBefore = <<>>

\* The locals of ask before its first statement and after its return.
ClearExchange ==
  /\ user_text' = <<>>
  /\ event' = <<>>
  /\ out' = <<>>
  /\ written' = <<>>
  /\ fragments' = <<>>
  /\ received' = 0
  /\ shape' = "empty"
  /\ sawError' = FALSE
  /\ resp' = <<>>
  /\ histBefore' = <<>>

Init ==
  /\ args \in [model : Models, no_tools : BOOLEAN, trace : BOOLEAN]
  /\ tools = MakeTools(args.no_tools)
  /\ history = << SystemTurn >>
  /\ pc = "start"
  /\ request = <<>>
  /\ conns = 0
  /\ ret = None
  /\ outcome = "none"
  /\ farewells = 0
  /\ exchanges = 0
  /\ succeeded = 0
  /\ failed = {}
  /\ NoExchange

\* ------------------------------------------------------------------- ask
\* Variant: ask does not append the user turn.
AskEnter_NoAppend(text) ==
  /\ exchanges < MaxExchanges
  /\ histBefore' = history
  /\ history' = history
  /\ user_text' = text
  /\ event' = <<>>
  /\ out' = <<>>
  /\ written' = <<>>
  /\ fragments' = <<>>
  /\ received' = 0
  /\ shape' = "empty"
  /\ sawError' = FALSE
  /\ resp' = <<>>
  /\ ret' = None
  /\ outcome' = "none"
  /\ exchanges' = exchanges + 1
  /\ pc' = "open"
  /\ UNCHANGED << args, tools, request, conns, farewells, succeeded, failed >>

\* Entry of ask: the user turn is appended before the stream is opened.
AskEnter(text) ==
  /\ exchanges < MaxExchanges
  /\ histBefore' = history
  /\ history' = Append(history, UserTurn(text))
  /\ user_text' = text
  /\ event' = <<>>
  /\ out' = <<>>
  /\ written' = <<>>
  /\ fragments' = <<>>
  /\ received' = 0
  /\ shape' = "empty"
  /\ sawError' = FALSE
  /\ resp' = <<>>
  /\ ret' = None
  /\ outcome' = "none"
  /\ exchanges' = exchanges + 1
  /\ pc' = "open"
  /\ UNCHANGED << args, tools, request, conns, farewells, succeeded, failed >>

\* Variant: the request carries the system turn and the newest turn only.
MakeRequest_NewestOnly ==
  [model |-> args.model,
   input |-> << SystemTurn, history[Len(history)] >>,
   tools |-> OrNone(tools)]

\* The request built by client.responses.stream(...).
MakeRequest == [model |-> args.model, input |-> history, tools |-> OrNone(tools)]

\* Variant: the handler records an empty assistant turn.
ExceptReturn_AppendsEmpty ==
  /\ ret' = Some(<<>>)
  /\ outcome' = "exception"
  /\ failed' = failed \cup { Len(histBefore) + 1 }
  /\ pc' = "returned"
  /\ history' = Append(history, AssistantTurn(<<>>))

\* Variant: the handler takes the user turn of the failed exchange back.
ExceptReturn_Rollback ==
  /\ ret' = Some(<<>>)
  /\ outcome' = "exception"
  /\ failed' = failed \cup { Len(histBefore) + 1 }
  /\ pc' = "returned"
  /\ history' = histBefore

\* Variant: the handler lets the exception out of ask, and main ends on it.
ExceptReturn_Propagates ==
  /\ outcome' = "exception"
  /\ failed' = failed \cup { Len(histBefore) + 1 }
  /\ pc' = "crashed"
  /\ UNCHANGED << history, ret >>

\* `except Exception`: the error is printed and ask returns "".
ExceptReturn ==
  /\ ret' = Some(<<>>)
  /\ outcome' = "exception"
  /\ failed' = failed \cup { Len(histBefore) + 1 }
  /\ pc' = "returned"
  /\ UNCHANGED history

\* Variant: the interrupt is absorbed like any other exception.
InterruptExit_Absorbed ==
  /\ outcome' = "interrupt"
  /\ farewells' = farewells
  /\ pc' = "returned"
  /\ UNCHANGED << history, ret >>

\* `except KeyboardInterrupt: raise` in ask, then the handler of main prints
\* the farewell line and main returns.
InterruptExit ==
  /\ outcome' = "interrupt"
  /\ farewells' = farewells + 1
  /\ pc' = "exited"
  /\ UNCHANGED << history, ret >>

\* The with statement is entered: the request is sent and the stream opens.
OpenStream ==
  /\ pc = "open"
  /\ request' = << MakeRequest >>
  /\ conns' = conns + 1
  /\ pc' = "streaming"
  /\ UNCHANGED << args, tools, history, ret, outcome, farewells, exchanges,
                  succeeded, failed, exch >>

\* Opening the stream raises: no connection was established.
OpenRaises ==
  /\ pc = "open"
  /\ request' = << MakeRequest >>
  /\ ExceptReturn
  /\ UNCHANGED << args, tools, conns, farewells, exchanges, succeeded, exch >>

\* One iteration of `for event in stream`: the stream delivers an event and
\* the loop dispatches it.
NextEvent ==
  /\ pc = "streaming"
  /\ received < MaxEvents
  /\ \E e \in Events :
       /\ event' = << e >>
       /\ out' = Render(e, args.trace)
       /\ written' = written \o WrittenBy(Render(e, args.trace))
       /\ fragments' = fragments \o e.delta
       /\ shape' = ShapeAfter(shape, e)
       /\ sawError' = (sawError \/ e.type = "response.error")
       /\ pc' = IF Breaks(e) THEN "final" ELSE "streaming"
  /\ received' = received + 1
  /\ UNCHANGED << args, tools, history, request, conns, ret, outcome, farewells,
                  exchanges, succeeded, failed, user_text, resp, histBefore >>

\* The stream is exhausted and the loop ends.
LoopEnd ==
  /\ pc = "streaming"
  /\ pc' = "final"
  /\ UNCHANGED << args, tools, history, request, conns, ret, outcome, farewells,
                  exchanges, succeeded, failed, exch >>

\* Variant: the stream is not closed when reading it raises.
StreamRaises_Leak ==
  /\ pc = "streaming"
  /\ conns' = conns
  /\ ExceptReturn
  /\ UNCHANGED << args, tools, request, farewells, exchanges, succeeded, exch >>

\* Reading the next event raises (for instance the connection is lost); the
\* with statement closes the stream on the way out.
StreamRaises ==
  /\ pc = "streaming"
  /\ conns' = conns - 1
  /\ ExceptReturn
  /\ UNCHANGED << args, tools, request, farewells, exchanges, succeeded, exch >>

OrEmpty(output_text) == IF Truthy(output_text) THEN output_text.val ELSE <<>>

\* Variant: the assistant turn is recorded without the reply's text.
Complete_DropsText(output_text) ==
  LET reply == OrEmpty(output_text) IN
    /\ resp' = << output_text >>
    /\ history' = Append(history, AssistantTurn(<<>>))
    /\ ret' = Some(reply)

\* Variant: the reply is recorded with the role of the turn before it.
Complete_AsUser(output_text) ==
  LET reply == OrEmpty(output_text) IN
    /\ resp' = << output_text >>
    /\ history' = Append(history, UserTurn(reply))
    /\ ret' = Some(reply)

\* get_final_response returns resp; the with statement closes the stream,
\* then reply = resp.output_text or "" becomes the assistant turn.
Complete(output_text) ==
  LET reply == OrEmpty(output_text) IN
    /\ resp' = << output_text >>
    /\ history' = Append(history, AssistantTurn(reply))
    /\ ret' = Some(reply)

FinalResponse ==
  /\ pc = "final"
  /\ \E output_text \in OutputTexts : Complete(output_text)
  /\ conns' = conns - 1
  /\ outcome' = "completed"
  /\ succeeded' = IF sawError THEN succeeded ELSE succeeded + 1
  /\ pc' = "returned"
  /\ UNCHANGED << args, tools, request, farewells, exchanges, failed, user_text, event, out,
                  written, fragments, received, shape, sawError, histBefore >>

\* get_final_response raises.
FinalRaises ==
  /\ pc = "final"
  /\ conns' = conns - 1
  /\ ExceptReturn
  /\ UNCHANGED << args, tools, request, farewells, exchanges, succeeded, exch >>

\* The user interrupts while ask runs.
AskInterrupt ==
  /\ pc \in { "open", "streaming", "final" }
  /\ conns' = IF pc = "open" THEN conns ELSE conns - 1
  /\ InterruptExit
  /\ UNCHANGED << args, tools, request, exchanges, succeeded, failed, exch >>

\* ------------------------------------------------------------------ main
\* `if args.message: ask(args.model, args.message)`
MainMessage ==
  /\ pc = "start"
  /\ \E message \in Messages :
       IF Truthy(message)
       THEN AskEnter(message.val)
       ELSE /\ pc' = "prompt"
            /\ UNCHANGED << args, tools, history, request, conns, ret, outcome,
                            farewells, exchanges, succeeded, failed, exch >>

\* ask has returned to main, which discards the reply and prompts again; the
\* locals of the call are gone.
Return ==
  /\ pc = "returned"
  /\ pc' = "prompt"
  /\ ClearExchange
  /\ ret' = None
  /\ outcome' = "none"
  /\ UNCHANGED << args, tools, history, request, conns, farewells, exchanges,
                  succeeded, failed >>

\* One iteration of the interactive loop: a line is read and stripped; an
\* empty one is skipped.
Prompt ==
  /\ pc = "prompt"
  /\ \E line \in Lines :
       LET text == Strip(line) IN
         IF text = <<>>
         THEN UNCHANGED vars
         ELSE AskEnter(text)

\* The user interrupts while input() blocks.
PromptInterrupt ==
  /\ pc = "prompt"
  /\ InterruptExit
  /\ UNCHANGED << args, tools, request, conns, exchanges, succeeded, failed, exch >>

\* input() meets end of file: EOFError is not caught by main.
PromptEOF ==
  /\ pc = "prompt"
  /\ pc' = "crashed"
  /\ UNCHANGED << args, tools, history, request, conns, ret, outcome, farewells,
                  exchanges, succeeded, failed, exch >>

Next ==
  \/ MainMessage
  \/ Prompt
  \/ PromptInterrupt
  \/ PromptEOF
  \/ OpenStream
  \/ OpenRaises
  \/ NextEvent
  \/ LoopEnd
  \/ StreamRaises
  \/ FinalResponse
  \/ FinalRaises
  \/ AskInterrupt
  \/ Return

Spec == Init /\ [][Next]_vars

\* The runs without a user interrupt, in which every blocking call comes
\* back: opening the stream succeeds or raises, each read of the stream
\* delivers an event, ends the stream or raises, get_final_response returns
\* or raises, and main takes the next statement after ask returns.  The
\* prompt may block for ever: the user need not type.
NextNoInterrupt ==
  \/ MainMessage
  \/ Prompt
  \/ PromptEOF
  \/ OpenStream
  \/ OpenRaises
  \/ NextEvent
  \/ LoopEnd
  \/ StreamRaises
  \/ FinalResponse
  \/ FinalRaises
  \/ Return

Fairness ==
  /\ WF_vars(OpenStream \/ OpenRaises)
  /\ WF_vars(NextEvent \/ LoopEnd \/ StreamRaises)
  /\ WF_vars(FinalResponse \/ FinalRaises)
  /\ WF_vars(Return)

LiveSpec == Init /\ [][NextNoInterrupt]_vars /\ Fairness

TypeOK ==
  /\ pc \in { "start", "prompt", "open", "streaming", "final", "returned",
              "exited", "crashed" }
  /\ conns \in 0..1
  /\ exchanges \in 0..MaxExchanges
  /\ received \in 0..MaxEvents
  /\ Len(event) <= 1

\* ================================================================ claims

AssistantCount(h) == Cardinality({ i \in 1..Len(h) : h[i].role = "assistant" })

\* C1: when the program is back at the prompt after N exchanges that all
\* succeeded (no exception, no error event), the history holds exactly
\* 1 + 2N turns.
C1_LengthAfterSuccesses ==
  (pc = "prompt" /\ succeeded = exchanges) => Len(history) = 1 + 2 * exchanges

C1_Witness == pc = "prompt" /\ exchanges = 2 /\ succeeded = 2

\* C2: when an exchange fails by an exception, ask returns the empty string
\* to its caller (the exception goes no further) and the history is the
\* history before the exchange plus the user turn of that exchange.
C2_FailureKeepsUserTurnOnly ==
  outcome = "exception" =>
    /\ pc = "returned"
    /\ ret = Some(<<>>)
    /\ history = Append(histBefore, UserTurn(user_text))

C2_Witness ==
  /\ outcome = "exception"
  /\ conns = 0
  /\ received >= 1
  /\ Len(histBefore) >= 3

\* C3: once an error event has arrived, it is the last event the loop
\* received and rendered, and the exchange appends no assistant turn.
C3_ErrorHaltsExchange ==
  sawError =>
    /\ event = << ErrorEvent >>
    /\ history = Append(histBefore, UserTurn(user_text))

C5_NoBlankSubmitted ==
  \A i \in 1..Len(history) :
    history[i].role = "user" => Strip(history[i].text) /= <<>>

\* C6 as stated: in trace mode every received tool-call event is rendered,
\* whatever optional attributes it carries; without trace none is; text
\* fragments and error events are rendered in both modes.
C6_ToolEventsRendered ==
  \A i \in 1..Len(event) :
    LET e == event[i] IN
      /\ IsToolEvent(e) => (out /= <<>> <=> args.trace)
      /\ e.type \in { "response.output_text.delta", "response.error" } => out /= <<>>

\* C6 as amended: in trace mode every begin, output and completion event is
\* rendered, and an argument-fragment event is rendered exactly when it
\* carries a non-empty args_delta; without trace no tool-call event is
\* rendered; text fragments and error events are rendered in both modes.
C6_ToolEventsRenderedUnlessEmptyDelta ==
  \A i \in 1..Len(event) :
    LET e == event[i] IN
      /\ (IsToolEvent(e) /\ e.type /= "response.tool_call.delta") =>
           (out /= <<>> <=> args.trace)
      /\ e.type = "response.tool_call.delta" =>
           (out /= <<>> <=> (args.trace /\ "args_delta" \in e.fields))
      /\ e.type \in { "response.output_text.delta", "response.error" } => out /= <<>>

C6_Witness ==
  /\ args.trace
  /\ received = 2
  /\ event = << Event("response.tool_call.begin", <<>>, {}) >>
  /\ Len(out) = 2

C8_ToolsFollowNoTools ==
  \A i \in 1..Len(request) :
    IF args.no_tools
    THEN request[i].tools = None
    ELSE /\ request[i].tools.some
         /\ Len(request[i].tools.val) = 1
         /\ request[i].tools.val[1].server_url =
              "https://tom-nominated-beneficial-joining.trycloudflare.com/mcp/"
         /\ request[i].tools.val[1].require_approval = "never"

C8_Witness ==
  /\ Len(request) = 1
  /\ args.no_tools
  /\ args.trace
  /\ request[1].tools = None
  /\ exchanges = 2

\* C9: the history is append-only with a fixed head: its first turn is the
\* system turn with the initial instruction text, it holds exactly one
\* system turn, and every step keeps the turns already there.
IsPrefix(h1, h2) == Len(h1) <= Len(h2) /\ SubSeq(h2, 1, Len(h1)) = h1

C9_AppendOnlyFixedHead ==
  /\ [](/\ Len(history) >= 1
        /\ history[1] = Turn("system", "input_text", SystemText)
        /\ Cardinality({ i \in 1..Len(history) : history[i].role = "system" }) = 1)
  /\ [][IsPrefix(history, history')]_vars

C9_Witness ==
  /\ pc = "exited"
  /\ Len(history) = 4
  /\ AssistantCount(history) = 1
  /\ history[2].role = "user"
  /\ history[3].role = "user"

\* C10: at most one stream connection is open, and only while an exchange
\* is streaming or fetching its final response: none is open at the prompt,
\* when an exchange starts, when ask has returned or when the process ended.
C10_ConnectionScoped ==
  /\ conns \in { 0, 1 }
  /\ conns = 1 <=> pc \in { "streaming", "final" }

C10_Witness ==
  /\ pc = "returned"
  /\ outcome = "exception"
  /\ received >= 1
  /\ conns = 0
  /\ exchanges = 2

\* C11: every outbound request carries the whole history as it stands when
\* the request is opened, in order: the system turn first, the user turn of
\* the current exchange last, every earlier turn (the user turns of failed
\* exchanges included) in between; and each request extends the one before.
C11_RequestCarriesHistory ==
  /\ [](\A i \in 1..Len(request) :
          /\ request[i].input[1] = SystemTurn
          /\ pc \in { "streaming", "final", "returned" } =>
               request[i].input = Append(histBefore, UserTurn(user_text)))
  /\ [][request' /= request =>
          /\ Len(request') = 1
          /\ request'[1].input = history
          /\ request'[1].input[Len(history)] = UserTurn(user_text)
          /\ \A i \in 1..Len(request) : IsPrefix(request[i].input, request'[1].input)]_vars

C11_Witness ==
  /\ pc = "streaming"
  /\ Len(request) = 1
  /\ Len(request[1].input) = 3
  /\ request[1].input[2].role = "user"
  /\ request[1].input[3].role = "user"

\* C12: without an interrupt and with a finite stream, every exchange that
\* is streaming eventually ends, completed or failed, with its connection
\* closed, and the program then comes back to the prompt; at the prompt a
\* new exchange can be started whatever happened to the earlier ones.
C12_ExchangeEndsAtPrompt ==
  /\ (pc = "streaming") ~>
       (pc = "returned" /\ outcome \in { "completed", "exception" } /\ conns = 0)
  /\ (pc = "returned") ~> (pc = "prompt")
  /\ []((pc = "prompt" /\ exchanges < MaxExchanges) => ENABLED AskEnter(<<"a">>))

C12_Witness ==
  /\ pc = "returned"
  /\ outcome = "completed"
  /\ Len(history) = 4
  /\ history[3].role = "user"
  /\ history[4] = AssistantTurn(<<"a", "b">>)

\* C13: every assistant turn comes right after a user turn (never after the
\* system turn or another assistant turn); a user turn is followed by another
\* user turn only where its exchange failed, and a user turn has no assistant
\* turn after it exactly where its exchange failed or is the last one
\* started and has not completed.
Unanswered(i) == i = Len(history) \/ history[i + 1].role /= "assistant"

LastStarted(i) ==
  /\ histBefore /= <<>>
  /\ i = Len(histBefore) + 1
  /\ outcome \in { "none", "interrupt" }

C13_TurnsAlternate ==
  /\ \A i \in 1..Len(history) :
       history[i].role = "assistant" => (i > 1 /\ history[i - 1].role = "user")
  /\ \A i \in 1..Len(history) :
       history[i].role = "user" =>
         /\ (i < Len(history) /\ history[i + 1].role = "user") => i \in failed
         /\ Unanswered(i) <=> (i \in failed \/ LastStarted(i))

C13_Witness ==
  /\ pc = "final"
  /\ failed = { 2 }
  /\ Len(history) = 3
  /\ history[2].role = "user"
  /\ history[3].role = "user"
====
